---------------------------- MODULE Spec2Model ----------------------------
(* A model of backend/app.py: the Flask backend that serves the frontend    *)
(* files and answers POST /api/verify with an OCR based verification of an  *)
(* uploaded image or PDF.                                                   *)
(*                                                                          *)
(* Text is modelled at character level: a str (or bytes) value is a         *)
(* sequence of one-character strings, so that strip, split, join, lower,    *)
(* the `in` substring test, startswith/endswith and int() are computed as   *)
(* Python computes them.                                                    *)
EXTENDS Integers, Sequences, FiniteSets, TLC

VARIABLES
    EASYOCR_OK,     \* module global, set by the import of easyocr
    PDF2IMAGE_OK,   \* module global, set by the import of pdf2image
    FRONTEND_DIR,   \* module global, the static root
    fs,             \* the file system: its directories and its files
    pc,             \* position of the request being handled
    request,        \* the request being handled
    filename,       \* api_verify local
    raw,            \* api_verify local
    file_hash,      \* api_verify local
    pages,          \* api_verify local: the number of page images of the PDF
    texts,          \* api_verify local
    confidences,    \* api_verify local
    page_count,     \* api_verify local
    response,       \* the responses sent for the request, in order
    performed,      \* history: the processing steps run for the request
    ocr_log,        \* history: per processed page, what recognition did
    raised,         \* history: the exception that ended the request, if any
    arg,            \* input of a function applied on its own
    ret             \* its result

server == <<EASYOCR_OK, PDF2IMAGE_OK, FRONTEND_DIR, fs>>
locals == <<filename, raw, file_hash, pages, texts, confidences, page_count>>
handler == <<pc, request, locals, response, performed, ocr_log, raised>>
unit == <<arg, ret>>
vars == <<server, handler, unit>>

\* A value that may be absent (Python's None) is a sequence: <<>> when
\* absent, <<v>> when present.
Absent == <<>>
Some(v) == <<v>>

(***************************************************************************)
(* Characters and strings                                                  *)
(***************************************************************************)

\* The characters of the model in code point order.
Ascii ==
    <<"\n", " ", "%", "-", ".", "/", "0", "1", "2", "3", "4", "5", "6", "7",
      "8", "9", ":", "A", "B", "C", "D", "E", "F", "G", "H", "I", "J", "K",
      "L", "M", "N", "O", "P", "Q", "R", "S", "T", "U", "V", "W", "X", "Y",
      "Z", "_", "a", "b", "c", "d", "e", "f", "g", "h", "i", "j", "k", "l",
      "m", "n", "o", "p", "q", "r", "s", "t", "u", "v", "w", "x", "y", "z">>

Ord(c) == CHOOSE i \in 1..Len(Ascii) : Ascii[i] = c

UpperCase ==
    <<"A", "B", "C", "D", "E", "F", "G", "H", "I", "J", "K", "L", "M", "N",
      "O", "P", "Q", "R", "S", "T", "U", "V", "W", "X", "Y", "Z">>

LowerCase ==
    <<"a", "b", "c", "d", "e", "f", "g", "h", "i", "j", "k", "l", "m", "n",
      "o", "p", "q", "r", "s", "t", "u", "v", "w", "x", "y", "z">>

Digits == <<"0", "1", "2", "3", "4", "5", "6", "7", "8", "9">>

\* str.split() and str.strip() without arguments work on whitespace.
Whitespace == {" ", "\n"}

\* The lower-case character of each character
LowerTable ==
    [c \in {Ascii[i] : i \in 1..Len(Ascii)} |->
        IF \E i \in 1..Len(UpperCase) : UpperCase[i] = c
        THEN LowerCase[CHOOSE i \in 1..Len(UpperCase) : UpperCase[i] = c]
        ELSE c]

LowerChar(c) == LowerTable[c]

\* str.lower()
Lower(s) == [i \in 1..Len(s) |-> LowerChar(s[i])]

\* `p in s` for two strings
Contains(s, p) ==
    \E i \in 1..(Len(s) - Len(p) + 1) : SubSeq(s, i, i + Len(p) - 1) = p

\* str.startswith
StartsWith(s, p) == Len(p) <= Len(s) /\ SubSeq(s, 1, Len(p)) = p

\* str.endswith
EndsWith(s, p) ==
    Len(p) <= Len(s) /\ SubSeq(s, Len(s) - Len(p) + 1, Len(s)) = p

\* str.strip(): from the first to the last character that is not whitespace
Strip(s) ==
    IF \A i \in 1..Len(s) : s[i] \in Whitespace THEN <<>>
    ELSE SubSeq(s,
                CHOOSE i \in 1..Len(s) :
                    s[i] \notin Whitespace
                      /\ \A j \in 1..(i - 1) : s[j] \in Whitespace,
                CHOOSE i \in 1..Len(s) :
                    s[i] \notin Whitespace
                      /\ \A j \in (i + 1)..Len(s) : s[j] \in Whitespace)

\* sep.join(list)
RECURSIVE Join(_, _)
Join(sep, list) ==
    IF list = <<>> THEN <<>>
    ELSE IF Len(list) = 1 THEN list[1]
    ELSE list[1] \o sep \o Join(sep, Tail(list))

\* str.split(): the maximal runs of non-whitespace characters, in order.
\* A run starts where a non-whitespace character follows whitespace or the
\* start of the string, and goes on to the last character before the next
\* whitespace.
Split(s) ==
    LET starts == SelectSeq([i \in 1..Len(s) |-> i],
                            LAMBDA i : s[i] \notin Whitespace
                                         /\ (i = 1 \/ s[i - 1] \in Whitespace))
        stop(i) == CHOOSE j \in i..Len(s) :
                      /\ (j = Len(s) \/ s[j + 1] \in Whitespace)
                      /\ \A m \in i..j : s[m] \notin Whitespace
    IN  [k \in 1..Len(starts) |-> SubSeq(s, starts[k], stop(starts[k]))]

\* str.isdigit(): non-empty and every character a digit
IsDigit(tok) ==
    /\ tok # <<>>
    /\ \A i \in 1..Len(tok) : \E d \in 1..Len(Digits) : Digits[d] = tok[i]

DigitValue(c) == (CHOOSE d \in 1..Len(Digits) : Digits[d] = c) - 1

\* int(tok) of a string of digits
RECURSIVE IntOf(_)
IntOf(tok) ==
    IF tok = <<>> THEN 0
    ELSE 10 * IntOf(SubSeq(tok, 1, Len(tok) - 1)) + DigitValue(tok[Len(tok)])

\* s < t for two strings: the comparison sorted() uses
RECURSIVE StrLess(_, _)
StrLess(s, t) ==
    IF t = <<>> THEN FALSE
    ELSE IF s = <<>> THEN TRUE
    ELSE IF Head(s) # Head(t) THEN Ord(Head(s)) < Ord(Head(t))
    ELSE StrLess(Tail(s), Tail(t))

\* sorted(set): the members in increasing order
RECURSIVE Sorted(_)
Sorted(S) ==
    IF S = {} THEN <<>>
    ELSE LET least == CHOOSE x \in S : \A y \in S \ {x} : StrLess(x, y)
         IN  <<least>> \o Sorted(S \ {least})

Min(a, b) == IF a <= b THEN a ELSE b
Max(a, b) == IF a >= b THEN a ELSE b

(***************************************************************************)
(* Lightweight heuristics                                                  *)
(***************************************************************************)

KNOWN_ISSUERS ==
    << <<"i", "n", "s", "t", "i", "t", "u", "t", "e">>,
       <<"u", "n", "i", "v", "e", "r", "s", "i", "t", "y">>,
       <<"c", "o", "l", "l", "e", "g", "e">>,
       <<"c", "e", "r", "t", "i", "f", "i", "e", "d">>,
       <<"c", "e", "r", "t", "i", "f", "i", "c", "a", "t", "e">>,
       <<"i", "s", "s", "u", "e", "d">>,
       <<"d", "e", "g", "r", "e", "e">>,
       <<"c", "o", "u", "r", "s", "e", "r", "a">>,
       <<"e", "d", "x">>,
       <<"u", "d", "e", "m", "y">>,
       <<"i", "i", "t">>,
       <<"m", "i", "t">>,
       <<"s", "t", "a", "n", "f", "o", "r", "d">>,
       <<"g", "o", "o", "g", "l", "e">>,
       <<"m", "i", "c", "r", "o", "s", "o", "f", "t">> >>

detect_issuer_in_text(text) ==
    LET t == Lower(text)
        found == {KNOWN_ISSUERS[i] : i \in {j \in 1..Len(KNOWN_ISSUERS) :
                                            Contains(t, KNOWN_ISSUERS[j])}}
    IN  Sorted(found)

BaseScore == 30
WordBonus == 30
WordThreshold == 50
IssuerCap == 30
IssuerWeight == 10
DateBonus == 10
ScoreFloor == 0
ScoreCeiling == 100

quick_trust_score_unclamped(word_count_, issuer_count, has_dates) ==
    BaseScore
      + (IF word_count_ > WordThreshold THEN WordBonus ELSE 0)
      + Min(IssuerCap, issuer_count * IssuerWeight)
      + (IF has_dates THEN DateBonus ELSE 0)

quick_trust_score_ge(word_count_, issuer_count, has_dates) ==
    LET score == BaseScore
                   + (IF word_count_ >= WordThreshold THEN WordBonus ELSE 0)
                   + Min(IssuerCap, issuer_count * IssuerWeight)
                   + (IF has_dates THEN DateBonus ELSE 0)
    IN  Max(ScoreFloor, Min(ScoreCeiling, score))

quick_trust_score(word_count_, issuer_count, has_dates) ==
    LET score == BaseScore
                   + (IF word_count_ > WordThreshold THEN WordBonus ELSE 0)
                   + Min(IssuerCap, issuer_count * IssuerWeight)
                   + (IF has_dates THEN DateBonus ELSE 0)
    IN  Max(ScoreFloor, Min(ScoreCeiling, score))


DATE_PHRASES ==
    { <<"i", "s", "s", "u", "e", "d", " ", "o", "n">>,
      <<"d", "a", "t", "e", " ", "o", "f">>,
      <<"o", "n", ":">> }

YearLen == 4
YearMin == 1900
YearMax == 2100

\* words = [w for w in full_text.split() if w.strip()]
Words(full_text) == SelectSeq(Split(full_text), LAMBDA w : Strip(w) # <<>>)

HasDates_anylen(full_text, words) ==
    \/ \E i \in 1..Len(words) :
          /\ IsDigit(words[i])
          /\ YearMin <= IntOf(words[i]) /\ IntOf(words[i]) <= YearMax
    \/ LET t == Lower(full_text) IN \E k \in DATE_PHRASES : Contains(t, k)

\* has_dates = any(tok.isdigit() and (len(tok) == 4 and 1900 <= int(tok)
\*             <= 2100) for tok in words) or any(k in full_text.lower() ...)
HasDates(full_text, words) ==
    \/ \E i \in 1..Len(words) :
          /\ IsDigit(words[i])
          /\ Len(words[i]) = YearLen
          /\ YearMin <= IntOf(words[i]) /\ IntOf(words[i]) <= YearMax
    \/ LET t == Lower(full_text) IN \E k \in DATE_PHRASES : Contains(t, k)

SnippetLimit == 1000

Snippet(full_text) ==
    IF Len(full_text) > SnippetLimit
    THEN SubSeq(full_text, 1, SnippetLimit) \o <<".", ".", ".">>
    ELSE full_text

\* The scan of the full text in api_verify: words, issuers, dates, score.
Scan(full_text) ==
    LET words == Words(full_text)
        word_count == Len(words)
        issuers == detect_issuer_in_text(full_text)
        has_dates == HasDates(full_text, words)
    IN  [word_count |-> word_count,
         detected_issuers |-> issuers,
         has_dates |-> has_dates,
         trust_score |-> quick_trust_score(word_count, Len(issuers), has_dates)]

(***************************************************************************)
(* Helpers of the OCR API                                                  *)
(***************************************************************************)

\* hashlib.sha256(b).hexdigest(): the digest is kept symbolic, one per input.
sha256_bytes(b) == [sha256 |-> b]

\* Fractions stand for the float averages of confidences (in percent).
RatAdd(a, b) == <<a[1] * b[2] + b[1] * a[2], a[2] * b[2]>>

RECURSIVE RatSum(_)
RatSum(list) ==
    IF list = <<>> THEN <<0, 1>> ELSE RatAdd(Head(list), RatSum(Tail(list)))

\* (sum(xs) / len(xs)) if xs else None, for a list of fractions
Average(list) ==
    IF list = <<>> THEN Absent
    ELSE Some(<<RatSum(list)[1], RatSum(list)[2] * Len(list)>>)

\* The body of ocr_easyocr_pil after reader.readtext returned `results`, a
\* list of detections (text, conf): the texts joined by newlines and the
\* mean of the numeric confidences.
ocr_easyocr_pil(results) ==
    LET texts_ == [i \in 1..Len(results) |-> results[i].text]
        withConf == SelectSeq(results, LAMBDA r : r.conf # Absent)
        confs == [i \in 1..Len(withConf) |-> <<withConf[i].conf[1], 1>>]
    IN  [text |-> Join(<<"\n">>, texts_), conf |-> Average(confs)]

\* Image.open(io.BytesIO(b)) succeeds on bytes that start with the signature
\* of an image format; "PNG" stands for such a signature.
pil_from_bytes_ok(b) == StartsWith(b, <<"P", "N", "G">>)

PDF_MAGIC == <<"%", "P", "D", "F">>

\* is_pdf = filename.lower().endswith(".pdf") or raw[:4] == b"%PDF"
is_pdf(filename_, raw_) ==
    \/ EndsWith(Lower(filename_), <<".", "p", "d", "f">>)
    \/ SubSeq(raw_, 1, Min(4, Len(raw_))) = PDF_MAGIC

PAGE_SEPARATOR ==
    <<"\n", "\n", "-", "-", "-", "P", "A", "G", "E", "-", "-", "-", "\n", "\n">>

FullText_skip_empty(texts_) ==
    Strip(Join(PAGE_SEPARATOR, SelectSeq(texts_, LAMBDA t : t # <<>>)))

\* full_text = "\n\n---PAGE---\n\n".join(texts).strip()
FullText(texts_) == Strip(Join(PAGE_SEPARATOR, texts_))

\* traceback.format_exc() of the exception with message e
Traceback(e) == <<"Traceback (most recent call last):", e>>

MissingFile_never(req) == FALSE

\* "file" not in request.files
MissingFile(req) == ~req.has_file

MissingFileResponse ==
    [status |-> 400,
     body |-> [error |-> "no file part named 'file' in request"]]

Pdf2ImageMissingResponse ==
    [status |-> 400,
     body |-> [error |-> "pdf_uploaded_but_pdf2image_missing",
               message |-> "Install pdf2image and poppler to enable PDF support."]]

PdfConversionFailedResponse(e) ==
    [status |-> 500,
     body |-> [error |-> "pdf_conversion_failed", details |-> e,
               trace |-> Traceback(e)]]

CannotReadImageResponse(e) ==
    [status |-> 400, body |-> [error |-> "cannot_read_image", details |-> e]]

OcrFailedResponse(e) ==
    [status |-> 500,
     body |-> [error |-> "ocr_failed", details |-> e, trace |-> Traceback(e)]]

\* What the client gets when an exception leaves a view function: Flask's
\* own 500 page, which is HTML.
OuterExcept_reraise(e) ==
    [status |-> 500, html |-> "Internal Server Error"]

\* except Exception as e: ... "internal_server_error"
OuterExcept(e) ==
    [status |-> 500,
     body |-> [error |-> "internal_server_error", details |-> e,
               trace |-> Traceback(e)]]

OnPageOcrError_skip(texts_) == texts_

\* except Exception: texts.append("")
OnPageOcrError(texts_) == Append(texts_, <<>>)

\* The 200 response of api_verify
VerificationResult(filename_, file_hash_, page_count_, texts_, confidences_) ==
    LET full_text == FullText(texts_)
        scan == Scan(full_text)
    IN  [status |-> 200,
         body |-> [file_name |-> filename_,
                   file_hash |-> file_hash_,
                   page_count |-> page_count_,
                   full_text |-> full_text,
                   extracted_text_snippet |-> Snippet(full_text),
                   word_count |-> scan.word_count,
                   detected_issuers |-> scan.detected_issuers,
                   has_dates |-> scan.has_dates,
                   avg_ocr_confidence |-> Average(confidences_),
                   trust_score |-> scan.trust_score]]

(***************************************************************************)
(* The inputs of the OCR API                                               *)
(***************************************************************************)

MaxPages == 2

RECURSIVE Repeat(_, _)
Repeat(s, n) == IF n = 0 THEN <<>> ELSE s \o Repeat(s, n - 1)

\* n words on one line
WordsLine(n) == [i \in 1..(2 * n - 1) |-> IF i % 2 = 1 THEN "w" ELSE " "]

Det(text, conf) == [text |-> text, conf |-> conf]

\* What reader.readtext may return for a page: lists of detections.
ReadtextResults ==
    { <<>>,
      << Det(<<"w">>, Some(90)) >>,
      << Det(<<>>, Some(50)), Det(<<>>, Absent) >>,
      << Det(WordsLine(25), Some(80)), Det(WordsLine(25), Some(60)) >>,
      << Det(WordsLine(49), Some(80)) >>,
      << Det(WordsLine(51), Absent) >>,
      << Det(<<"-", "-", "-", "P", "A", "G", "E", "-", "-", "-">>, Some(70)) >>,
      << Det(<<"M", "I", "T", " ", "1", "9", "9", "9">>, Some(90)) >>,
      << Det(<<"2", "1", "5", "0">>, Some(40)) >>,
      << Det(<<"I", "s", "s", "u", "e", "d", " ", "O", "n">>, Some(90)),
         Det(<<"e", "d", "x", " ", "i", "i", "t", " ", "g", "o", "o", "g",
               "l", "e">>, Some(30)) >> }

\* The outcomes of ocr_easyocr_pil(pre): it raises when the reader is
\* missing, and otherwise readtext raises or returns detections.
OcrOutcomes ==
    IF ~EASYOCR_OK
    THEN {[kind |-> "raise",
           msg |-> "EasyOCR not installed or failed to initialize."]}
    ELSE {[kind |-> "raise", msg |-> "readtext failed"]}
           \cup {[kind |-> "ok", result |-> ocr_easyocr_pil(r)] :
                    r \in ReadtextResults}

UploadNames ==
    { <<>>,
      <<"a", ".", "p", "n", "g">>,
      <<"A", ".", "P", "D", "F">> }

UploadBytes ==
    { <<"%", "P", "D", "F", "1">>, <<"P", "N", "G", "1">>, <<"x">> }

VerifyRequests ==
    {[route |-> "verify", has_file |-> FALSE, filename |-> <<>>, raw |-> <<>>]}
      \cup [route : {"verify"}, has_file : {TRUE}, filename : UploadNames,
            raw : UploadBytes]

(***************************************************************************)
(* Paths and the file system                                               *)
(***************************************************************************)

\* str.split("/"): the pieces between slashes, empty ones included
RECURSIVE SplitSlashFrom(_, _, _)
SplitSlashFrom(s, cur, acc) ==
    IF s = <<>> THEN Append(acc, cur)
    ELSE IF Head(s) = "/"
         THEN SplitSlashFrom(Tail(s), <<>>, Append(acc, cur))
         ELSE SplitSlashFrom(Tail(s), Append(cur, Head(s)), acc)

SplitSlash(s) == SplitSlashFrom(s, <<>>, <<>>)

DotDot == <<".", ".">>

\* The loop of posixpath.normpath over the components
RECURSIVE NormComps(_, _, _)
NormComps(comps, new_comps, initial_slashes) ==
    IF comps = <<>> THEN new_comps
    ELSE LET comp == Head(comps)
             rest == Tail(comps)
         IN  IF comp = <<>> \/ comp = <<".">>
             THEN NormComps(rest, new_comps, initial_slashes)
             ELSE IF \/ comp # DotDot
                     \/ (initial_slashes = 0 /\ new_comps = <<>>)
                     \/ (new_comps # <<>> /\ new_comps[Len(new_comps)] = DotDot)
             THEN NormComps(rest, Append(new_comps, comp), initial_slashes)
             ELSE IF new_comps # <<>>
             THEN NormComps(rest, SubSeq(new_comps, 1, Len(new_comps) - 1),
                            initial_slashes)
             ELSE NormComps(rest, new_comps, initial_slashes)

\* os.path.normpath
normpath(path) ==
    IF path = <<>> THEN <<".">>
    ELSE LET initial_slashes ==
                 IF ~StartsWith(path, <<"/">>) THEN 0
                 ELSE IF StartsWith(path, <<"/", "/">>)
                         /\ ~StartsWith(path, <<"/", "/", "/">>) THEN 2
                 ELSE 1
             joined == Join(<<"/">>, NormComps(SplitSlash(path), <<>>,
                                               initial_slashes))
             out == Repeat(<<"/">>, initial_slashes) \o joined
         IN  IF out = <<>> THEN <<".">> ELSE out

\* os.path.join(a, b)
join(a, b) ==
    IF StartsWith(b, <<"/">>) THEN b
    ELSE IF a = <<>> \/ EndsWith(a, <<"/">>) THEN a \o b
    ELSE a \o <<"/">> \o b

\* os.path.abspath of a path that is absolute already
abspath(path) == normpath(path)

\* os.path.dirname(os.path.abspath(__file__))
BACKEND_DIR == <<"/", "r", "/", "b">>

INDEX_HTML == <<"i", "n", "d", "e", "x", ".", "h", "t", "m", "l">>

\* A deployment with the frontend folder next to the backend folder, and
\* one without it. Each has a folder beside the static root whose name
\* starts with the root's name, and a file in the parent folder.
WithFrontend ==
    [dirs |-> { <<"/">>, <<"/", "r">>, <<"/", "r", "/", "b">>,
                <<"/", "r", "/", "f">>, <<"/", "r", "/", "f", "x">> },
     files |-> { <<"/", "r", "/", "b", "/", "a">>,
                 <<"/", "r", "/", "f", "/">> \o INDEX_HTML,
                 <<"/", "r", "/", "f", "/", "c">>,
                 <<"/", "r", "/", "f", "x", "/", "s">>,
                 <<"/", "r", "/", "s">> }]

WithoutFrontend ==
    [dirs |-> { <<"/">>, <<"/", "r">>, <<"/", "r", "/", "b">>,
                <<"/", "r", "/", "b", "x">> },
     files |-> { <<"/", "r", "/", "b", "/", "a">>,
                 <<"/", "r", "/", "b", "x", "/", "s">>,
                 <<"/", "r", "/", "s">> }]

isdir(f, path) == path \in f.dirs
exists(f, path) == path \in f.dirs \/ path \in f.files

\* FRONTEND_DIR as the module computes it on import
frontend_dir(f) ==
    LET d == normpath(join(join(BACKEND_DIR, DotDot), <<"f">>))
    IN  IF ~isdir(f, d) THEN BACKEND_DIR ELSE d

\* send_file(path): the file, or Flask's 500 page when path is a folder
send_file(f, path) ==
    IF path \in f.files THEN [status |-> 200, file |-> path]
    ELSE [status |-> 500, html |-> "Internal Server Error"]

serve_index(f, root) ==
    LET index_path == join(root, INDEX_HTML)
    IN  IF exists(f, index_path) THEN send_file(f, index_path)
        ELSE [status |-> 404, text |-> "index.html not found in frontend folder."]

serve_frontend_file(f, root, filename_) ==
    LET safe_path == normpath(join(root, filename_))
    IN  IF ~StartsWith(safe_path, abspath(root)) THEN [status |-> 403]
        ELSE IF exists(f, safe_path) THEN send_file(f, safe_path)
        ELSE [status |-> 404]

MaxSegments == 3

PathSegments ==
    { DotDot, <<".">>, <<"f">>, <<"f", "x">>, <<"b">>, <<"b", "x">>,
      <<"s">>, <<"c">>, <<"a">> }

\* The values of <path:filename>: up to MaxSegments segments joined by "/"
StaticNames ==
    UNION { {Join(<<"/">>, segs) : segs \in [1..n -> PathSegments]} :
            n \in 1..MaxSegments }

(***************************************************************************)
(* The functions applied on their own                                      *)
(***************************************************************************)

MaxCount == 4
Extreme == 100000000

\* Arguments of quick_trust_score: small counts of either sign, the counts
\* around the word threshold, and counts far beyond any document.
WordCounts ==
    (-MaxCount..MaxCount) \cup ((WordThreshold - 1)..(WordThreshold + 1))
       \cup {-Extreme, Extreme}

IssuerCounts == (-MaxCount..MaxCount) \cup {-Extreme, Extreme}

\* No request is being handled; the locals of api_verify do not exist and
\* are held at empty values.
idle_handler ==
    /\ pc = "idle"
    /\ request = Absent
    /\ filename = <<>> /\ raw = <<>> /\ file_hash = Absent /\ pages = 0
    /\ texts = <<>> /\ confidences = <<>> /\ page_count = 0
    /\ response = <<>>
    /\ performed = {}
    /\ ocr_log = <<>>
    /\ raised = Absent

ScoreInit ==
    /\ EASYOCR_OK = TRUE /\ PDF2IMAGE_OK = TRUE
    /\ FRONTEND_DIR = <<>> /\ fs = [dirs |-> {}, files |-> {}]
    /\ idle_handler
    /\ arg \in [word_count : WordCounts, issuer_count : IssuerCounts,
                has_dates : BOOLEAN]
    /\ ret = Absent

CallQuickTrustScore ==
    /\ ret = Absent
    /\ ret' = Some(quick_trust_score(arg.word_count, arg.issuer_count,
                                     arg.has_dates))
    /\ UNCHANGED <<server, handler, arg>>

ScoreNext == CallQuickTrustScore

ScoreSpec == ScoreInit /\ [][ScoreNext]_vars


(***************************************************************************)
(* POST /api/verify, one step of api_verify per action                     *)
(***************************************************************************)

Respond(r) == response' = Append(response, r)

\* An exception with message e reaches the outermost except clause.
RaiseToOuter(step, e) ==
    /\ raised' = Some([step |-> step, msg |-> e])
    /\ Respond(OuterExcept(e))
    /\ pc' = "done"

Init ==
    /\ EASYOCR_OK \in BOOLEAN
    /\ PDF2IMAGE_OK \in BOOLEAN
    /\ fs = WithFrontend
    /\ FRONTEND_DIR = frontend_dir(fs)
    /\ idle_handler
    /\ arg = Absent
    /\ ret = Absent

\* if "file" not in request.files: return ..., 400
CheckFile(req) ==
    /\ pc = "idle"
    /\ request' = Some(req)
    /\ IF MissingFile(req)
       THEN Respond(MissingFileResponse) /\ pc' = "done"
       ELSE pc' = "read" /\ UNCHANGED response
    /\ UNCHANGED <<server, locals, performed, ocr_log, raised, unit>>

\* f = request.files["file"]; filename = ...; raw = f.read();
\* file_hash = sha256_bytes(raw)
ReadUpload(outcome) ==
    /\ pc = "read"
    /\ LET req == request[1] IN
       IF ~req.has_file
       THEN /\ RaiseToOuter("files", "400 Bad Request: KeyError: 'file'")
            /\ UNCHANGED <<locals, performed>>
       ELSE /\ filename' = IF req.filename = <<>>
                           THEN <<"u", "p", "l", "o", "a", "d">>
                           ELSE req.filename
            /\ performed' = performed \cup
                   (IF outcome = "read raises" THEN {"read"}
                    ELSE {"read", "hash"})
            /\ IF outcome = "read raises"
               THEN /\ RaiseToOuter("read", "read failed")
                    /\ UNCHANGED <<raw, file_hash>>
               ELSE /\ raw' = req.raw
                    /\ IF outcome = "hash raises"
                       THEN /\ RaiseToOuter("hash", "hash failed")
                            /\ UNCHANGED file_hash
                       ELSE /\ file_hash' = Some(sha256_bytes(req.raw))
                            /\ pc' = "classify"
                            /\ UNCHANGED <<response, raised>>
            /\ UNCHANGED <<pages, texts, confidences, page_count>>
    /\ UNCHANGED <<server, request, ocr_log, unit>>

\* texts = []; confidences = []; page_count = 0; is_pdf = ...;
\* if is_pdf: if not PDF2IMAGE_OK: return ..., 400
Classify ==
    /\ pc = "classify"
    /\ texts' = <<>> /\ confidences' = <<>> /\ page_count' = 0
    /\ IF is_pdf(filename, raw)
       THEN IF ~PDF2IMAGE_OK
            THEN Respond(Pdf2ImageMissingResponse) /\ pc' = "done"
            ELSE pc' = "convert" /\ UNCHANGED response
       ELSE pc' = "decode" /\ UNCHANGED response
    /\ UNCHANGED <<server, request, filename, raw, file_hash, pages,
                   performed, ocr_log, raised, unit>>

\* try: pages = convert_pdf_bytes_to_pil_list(raw, dpi=200)
\* except Exception as e: return ... "pdf_conversion_failed" ..., 500
\* outcome: the number of page images, or -1 when the conversion raises
ConvertPdf(outcome) ==
    /\ pc = "convert"
    /\ performed' = performed \cup {"convert"}
    /\ IF ~PDF2IMAGE_OK
       THEN /\ raised' = Some([step |-> "convert",
                               msg |-> "pdf2image is not installed."])
            /\ Respond(PdfConversionFailedResponse("pdf2image is not installed."))
            /\ pc' = "done"
            /\ UNCHANGED pages
       ELSE IF outcome = -1
       THEN /\ raised' = Some([step |-> "convert", msg |-> "conversion failed"])
            /\ Respond(PdfConversionFailedResponse("conversion failed"))
            /\ pc' = "done"
            /\ UNCHANGED pages
       ELSE /\ pages' = outcome
            /\ pc' = IF outcome = 0 THEN "summarize" ELSE "pdf_page"
            /\ UNCHANGED <<response, raised>>
    /\ UNCHANGED <<server, request, filename, raw, file_hash, texts,
                   confidences, page_count, ocr_log, unit>>

\* One iteration of `for p in pages`: count the page, preprocess it, run
\* OCR on it; an OCR exception leaves an empty text for the page.
PdfPage(preprocess_raises, ocr) ==
    /\ pc = "pdf_page"
    /\ page_count < pages
    /\ page_count' = page_count + 1
    /\ IF preprocess_raises
       THEN /\ performed' = performed \cup {"preprocess"}
            /\ RaiseToOuter("preprocess", "preprocess failed")
            /\ UNCHANGED <<texts, confidences, ocr_log>>
       ELSE /\ performed' = performed \cup {"preprocess", "ocr"}
            /\ IF ocr.kind = "raise"
               THEN /\ texts' = OnPageOcrError(texts)
                    /\ ocr_log' = Append(ocr_log, [failed |-> TRUE, text |-> <<>>])
                    /\ UNCHANGED confidences
               ELSE /\ texts' = Append(texts, ocr.result.text)
                    /\ ocr_log' = Append(ocr_log, [failed |-> FALSE,
                                                   text |-> ocr.result.text])
                    /\ confidences' =
                          IF ocr.result.conf # Absent
                          THEN Append(confidences, ocr.result.conf[1])
                          ELSE confidences
            /\ pc' = IF page_count + 1 = pages THEN "summarize" ELSE "pdf_page"
            /\ UNCHANGED <<response, raised>>
    /\ UNCHANGED <<server, request, filename, raw, file_hash, pages, unit>>

\* try: pil = pil_from_bytes(raw)
\* except Exception as e: return ... "cannot_read_image" ..., 400
\* pre = preprocess_for_ocr(pil)
DecodeImage(preprocess_raises) ==
    /\ pc = "decode"
    /\ IF ~pil_from_bytes_ok(raw)
       THEN /\ performed' = performed \cup {"decode"}
            /\ raised' = Some([step |-> "decode",
                               msg |-> "cannot identify image file"])
            /\ Respond(CannotReadImageResponse("cannot identify image file"))
            /\ pc' = "done"
       ELSE /\ performed' = performed \cup {"decode", "preprocess"}
            /\ IF preprocess_raises
               THEN RaiseToOuter("preprocess", "preprocess failed")
               ELSE pc' = "ocr_image" /\ UNCHANGED <<response, raised>>
    /\ UNCHANGED <<server, request, locals, ocr_log, unit>>

\* try: txt, conf, meta = ocr_easyocr_pil(pre); ...; page_count = 1
\* except Exception as e: return ... "ocr_failed" ..., 500
OcrImage(ocr) ==
    /\ pc = "ocr_image"
    /\ performed' = performed \cup {"ocr"}
    /\ IF ocr.kind = "raise"
       THEN /\ raised' = Some([step |-> "ocr", msg |-> ocr.msg])
            /\ Respond(OcrFailedResponse(ocr.msg))
            /\ ocr_log' = Append(ocr_log, [failed |-> TRUE, text |-> <<>>])
            /\ pc' = "done"
            /\ UNCHANGED <<texts, confidences, page_count>>
       ELSE /\ texts' = Append(texts, ocr.result.text)
            /\ confidences' = IF ocr.result.conf # Absent
                              THEN Append(confidences, ocr.result.conf[1])
                              ELSE confidences
            /\ page_count' = 1
            /\ ocr_log' = Append(ocr_log, [failed |-> FALSE,
                                           text |-> ocr.result.text])
            /\ pc' = "summarize"
            /\ UNCHANGED <<response, raised>>
    /\ UNCHANGED <<server, request, filename, raw, file_hash, pages, unit>>

\* full_text = ...; snippet, words, issuers, has_dates, avg_conf, trust;
\* return jsonify({...}), 200
Summarize(raises) ==
    /\ pc = "summarize"
    /\ performed' = performed \cup {"concat", "scan", "score"}
    /\ IF raises
       THEN RaiseToOuter("summarize", "summarize failed")
       ELSE /\ Respond(VerificationResult(filename, file_hash[1], page_count,
                                          texts, confidences))
            /\ pc' = "done"
            /\ UNCHANGED raised
    /\ UNCHANGED <<server, request, locals, ocr_log, unit>>

\* The request is over; the server waits for the next one.
NextRequest ==
    /\ pc = "done"
    /\ pc' = "idle"
    /\ request' = Absent
    /\ filename' = <<>> /\ raw' = <<>> /\ file_hash' = Absent /\ pages' = 0
    /\ texts' = <<>> /\ confidences' = <<>> /\ page_count' = 0
    /\ response' = <<>>
    /\ performed' = {}
    /\ ocr_log' = <<>>
    /\ raised' = Absent
    /\ UNCHANGED <<server, unit>>

Next ==
    \/ \E req \in VerifyRequests : CheckFile(req)
    \/ \E outcome \in {"ok", "read raises", "hash raises"} : ReadUpload(outcome)
    \/ Classify
    \/ \E outcome \in -1..MaxPages : ConvertPdf(outcome)
    \/ \E preprocess_raises \in BOOLEAN, ocr \in OcrOutcomes :
          PdfPage(preprocess_raises, ocr)
    \/ \E preprocess_raises \in BOOLEAN : DecodeImage(preprocess_raises)
    \/ \E ocr \in OcrOutcomes : OcrImage(ocr)
    \/ \E raises \in BOOLEAN : Summarize(raises)
    \/ NextRequest

Spec == Init /\ [][Next]_vars


(***************************************************************************)
(* GET / and GET /<path:filename>                                          *)
(***************************************************************************)

StaticInit ==
    /\ EASYOCR_OK = TRUE
    /\ PDF2IMAGE_OK = TRUE
    /\ fs \in {WithFrontend, WithoutFrontend}
    /\ FRONTEND_DIR = frontend_dir(fs)
    /\ idle_handler
    /\ arg = Absent
    /\ ret = Absent

ServeIndex ==
    /\ pc = "idle"
    /\ request' = Some([route |-> "index"])
    /\ Respond(serve_index(fs, FRONTEND_DIR))
    /\ pc' = "done"
    /\ UNCHANGED <<server, locals, performed, ocr_log, raised, unit>>

ServeFrontendFile(name) ==
    /\ pc = "idle"
    /\ request' = Some([route |-> "static", filename |-> name])
    /\ Respond(serve_frontend_file(fs, FRONTEND_DIR, name))
    /\ pc' = "done"
    /\ UNCHANGED <<server, locals, performed, ocr_log, raised, unit>>

StaticNext ==
    \/ ServeIndex
    \/ \E name \in StaticNames : ServeFrontendFile(name)
    \/ NextRequest

StaticSpec == StaticInit /\ [][StaticNext]_vars

(***************************************************************************)
(* The scan of a text, applied on its own                                  *)
(***************************************************************************)

MaxAtoms == 3

\* Pieces of recognized text; a text is up to MaxAtoms pieces set side by
\* side, so that tokens form, grow and break across pieces.
ScanAtoms ==
    { <<"1", "8", "9", "9">>, <<"1", "9", "0", "0">>, <<"1", "9", "9", "9">>,
      <<"2", "1", "0", "0">>, <<"2", "1", "0", "1">>, <<"2", "1", "5", "0">>,
      <<"0">>, <<" ">>, <<"\n">>, <<"x">>,
      <<"I", "s", "s", "u", "e", "d", " ", "o", "n">>,
      <<"D", "a", "t", "e", " ", "O", "f">>,
      <<"o", "n">>, <<":">> }

RECURSIVE Concat(_)
Concat(list) == IF list = <<>> THEN <<>> ELSE Head(list) \o Concat(Tail(list))

ScanTexts ==
    UNION { {Concat(atoms) : atoms \in [1..n -> ScanAtoms]} : n \in 0..MaxAtoms }

ScanInit ==
    /\ EASYOCR_OK = TRUE /\ PDF2IMAGE_OK = TRUE
    /\ FRONTEND_DIR = <<>> /\ fs = [dirs |-> {}, files |-> {}]
    /\ idle_handler
    /\ arg \in ScanTexts
    /\ ret = Absent

\* full_text is stripped before it is scanned.
CallScan ==
    /\ ret = Absent
    /\ ret' = Some(Scan(Strip(arg)))
    /\ UNCHANGED <<server, handler, arg>>

ScanNext == CallScan

ScanSpec == ScanInit /\ [][ScanNext]_vars


(***************************************************************************)
(* Properties                                                              *)
(***************************************************************************)

Done == pc = "done"

\* The request took the PDF branch and the conversion returned page images.
PdfConverted == "convert" \in performed /\ (raised = Absent \/ raised[1].step # "convert")

Ok200 == Done /\ Len(response) = 1 /\ response[1].status = 200

PAGE_MARKER == <<"-", "-", "-", "P", "A", "G", "E", "-", "-", "-">>

\* str.count: the occurrences of p in s, read left to right without
\* overlap, counted from position `from` on
RECURSIVE CountFrom(_, _, _)
CountFrom(s, p, from) ==
    LET occ == {i \in from..(Len(s) - Len(p) + 1) :
                   SubSeq(s, i, i + Len(p) - 1) = p}
    IN  IF occ = {} THEN 0
        ELSE 1 + CountFrom(s, p, (CHOOSE i \in occ : \A j \in occ : i <= j)
                                    + Len(p))

Count(s, p) == CountFrom(s, p, 1)

\* The number of places of s where a run of non-whitespace ends
TokenCount(s) ==
    Cardinality({i \in 1..Len(s) :
                    s[i] \notin Whitespace
                      /\ (i = Len(s) \/ s[i + 1] \in Whitespace)})

IsDigitChar(c) == c \in {"0", "1", "2", "3", "4", "5", "6", "7", "8", "9"}

\* s has a whitespace-delimited token of exactly four digits whose value
\* lies in [1900, 2100]
HasYearToken(s) ==
    \E i \in 1..(Len(s) - 3) :
        /\ \A k \in i..(i + 3) : IsDigitChar(s[k])
        /\ (i = 1 \/ s[i - 1] \in Whitespace)
        /\ (i + 3 = Len(s) \/ s[i + 4] \in Whitespace)
        /\ LET v == 1000 * DigitValue(s[i]) + 100 * DigitValue(s[i + 1])
                      + 10 * DigitValue(s[i + 2]) + DigitValue(s[i + 3])
           IN  1900 <= v /\ v <= 2100

HasDatePhrase(s) ==
    \E k \in { <<"i", "s", "s", "u", "e", "d", " ", "o", "n">>,
               <<"d", "a", "t", "e", " ", "o", "f">>,
               <<"o", "n", ":">> } : LET t == Lower(s) IN Contains(t, k)

\* C1: for every word_count and issuer_count, extreme and negative ones
\* included, and either has_dates, quick_trust_score returns an integer in
\* [0, 100].
C1_ScoreInRange ==
    ret # Absent => ret[1] \in 0..100

\* C1, its case: the score of an extremely negative issuer count is 0.
C1_Witness ==
    /\ ret # Absent
    /\ arg.issuer_count = -Extreme
    /\ ret[1] = 0

\* C2 as stated: a 200 response for a PDF of N page images has
\* page_count = N and exactly N - 1 page markers in full_text.
C2_Original ==
    (Ok200 /\ PdfConverted) =>
        /\ response[1].body.page_count = pages
        /\ Count(response[1].body.full_text, PAGE_MARKER) = pages - 1

\* C2 as amended: a 200 response for a PDF of N page images has
\* page_count = N, the number of pages processed, whatever recognition did
\* on each page; full_text has exactly N - 1 page markers when N >= 1 and no
\* page's recognized text holds the marker itself, and is empty when N = 0.
C2_PageCountAndMarkers ==
    (Ok200 /\ PdfConverted) =>
        /\ response[1].body.page_count = pages
        /\ Len(ocr_log) = pages
        /\ (pages >= 1 /\ \A i \in 1..Len(ocr_log) :
                              ~Contains(ocr_log[i].text, PAGE_MARKER))
              => Count(response[1].body.full_text, PAGE_MARKER) = pages - 1
        /\ pages = 0 => response[1].body.full_text = <<>>

\* C2, its case: a two page PDF whose second page failed recognition is
\* answered with page_count 2 and one marker.
C2_Witness ==
    /\ Ok200 /\ PdfConverted
    /\ pages = 2
    /\ ~ocr_log[1].failed /\ ocr_log[1].text # <<>>
    /\ ocr_log[2].failed
    /\ Count(response[1].body.full_text, PAGE_MARKER) = 1

\* C3: in the PDF branch a page whose recognition raised contributes an
\* empty text at its position and every other page its recognized text, in
\* page order; the request is answered 200 with these texts joined unless a
\* step other than recognition raised, and recognition failures are never
\* reported as an error.
C3_PartialFailure ==
    PdfConverted =>
        /\ Len(texts) = Len(ocr_log)
        /\ \A i \in 1..Len(ocr_log) :
              texts[i] = IF ocr_log[i].failed THEN <<>> ELSE ocr_log[i].text
        /\ Done =>
              /\ raised = Absent =>
                    /\ Ok200
                    /\ Len(texts) = pages
                    /\ response[1].body.page_count = pages
                    /\ response[1].body.full_text
                          = Strip(Join(PAGE_SEPARATOR,
                                [i \in 1..pages |->
                                    IF ocr_log[i].failed THEN <<>>
                                    ELSE ocr_log[i].text]))
              /\ raised # Absent =>
                    /\ raised[1].step \in {"preprocess", "summarize"}
                    /\ response[1].body.error = "internal_server_error"

\* C3, its case: recognition failed on the first of two pages and read
\* text on the second, and the answer is 200.
C3_Witness ==
    /\ Ok200 /\ PdfConverted
    /\ pages = 2
    /\ ocr_log[1].failed
    /\ ~ocr_log[2].failed /\ ocr_log[2].text # <<>>
    /\ texts[1] = <<>> /\ texts[2] = ocr_log[2].text

\* C4: a request without the field 'file' is answered 400 with the error
\* naming the missing field, and no processing step runs for it.
C4_MissingFile ==
    (request # Absent /\ request[1].route = "verify" /\ ~request[1].has_file) =>
        /\ Done
        /\ Len(response) = 1
        /\ response[1].status = 400
        /\ response[1].body.error = "no file part named 'file' in request"
        /\ performed = {}
        /\ raw = <<>> /\ file_hash = Absent /\ texts = <<>> /\ ocr_log = <<>>

\* C4, its case: a request without the field has been answered.
C4_Witness ==
    /\ Done
    /\ ~request[1].has_file
    /\ response[1].status = 400

ErrorCodes ==
    {"no file part named 'file' in request",
     "pdf_uploaded_but_pdf2image_missing", "pdf_conversion_failed",
     "cannot_read_image", "ocr_failed", "internal_server_error"}

\* C5 as stated: every failure response carries an error code of the fixed
\* set and a details field, and every 5xx response a trace as well.
C5_ErrorShape ==
    \A i \in 1..Len(response) :
        response[i].status >= 400 =>
            /\ "body" \in DOMAIN response[i]
            /\ response[i].body.error \in ErrorCodes
            /\ "details" \in DOMAIN response[i].body
            /\ response[i].status >= 500 => "trace" \in DOMAIN response[i].body

\* The resolved path is the static root or lies below it.
InsideRoot(path, root) == path = root \/ StartsWith(path, root \o <<"/">>)

\* C6 as stated: GET /<path> answers 403 whenever the resolved path is not
\* the root or below it, and sends a file only from inside the root.
C6_NoEscape ==
    (Done /\ request[1].route = "static") =>
        LET resolved == normpath(join(FRONTEND_DIR, request[1].filename))
        IN  /\ ~InsideRoot(resolved, FRONTEND_DIR) => response[1].status = 403
            /\ response[1].status = 200 =>
                  /\ InsideRoot(resolved, FRONTEND_DIR)
                  /\ response[1].file = resolved

UnhandledSteps == {"read", "hash", "preprocess", "summarize"}

\* C7: a request is answered exactly once, with JSON; an exception raised
\* at a step with no handler of its own is answered 500
\* internal_server_error with the exception's message and a trace; and a
\* request being handled is always at a step that can run, up to its answer.
C7_OneJsonResponse ==
    /\ Len(response) <= 1
    /\ Done <=> Len(response) = 1
    /\ pc \in {"idle", "read", "classify", "convert", "pdf_page", "decode",
               "ocr_image", "summarize", "done"}
    /\ pc = "pdf_page" => page_count < pages
    /\ Done =>
          /\ "body" \in DOMAIN response[1]
          /\ (raised # Absent /\ raised[1].step \in UnhandledSteps) =>
                /\ response[1].status = 500
                /\ response[1].body.error = "internal_server_error"
                /\ response[1].body.details = raised[1].msg
                /\ "trace" \in DOMAIN response[1].body

\* C7, its case: preprocessing the second page of a PDF raised and the
\* request was answered 500.
C7_Witness ==
    /\ Done
    /\ raised # Absent /\ raised[1].step = "preprocess"
    /\ page_count = 2
    /\ response[1].status = 500

\* C8: trust_score = 30 + (30 if word_count > 50) + min(30, 10 * issuers)
\* + (10 if has_dates), with word_count the number of whitespace-delimited
\* tokens of full_text and issuers the number of known keywords found in it.
C8_TrustFormula ==
    Ok200 =>
        LET b == response[1].body
            wc == TokenCount(b.full_text)
            lowered == Lower(b.full_text)
            ic == Cardinality({i \in 1..Len(KNOWN_ISSUERS) :
                                  Contains(lowered, KNOWN_ISSUERS[i])})
        IN  /\ b.word_count = wc
            /\ Len(b.detected_issuers) = ic
            /\ b.trust_score = 30 + (IF wc > 50 THEN 30 ELSE 0)
                                  + (IF 10 * ic < 30 THEN 10 * ic ELSE 30)
                                  + (IF b.has_dates THEN 10 ELSE 0)
            /\ (wc >= 51 /\ ic = 0 /\ ~b.has_dates) => b.trust_score = 60
            /\ (wc = 50 /\ ic = 0 /\ ~b.has_dates) => b.trust_score = 30

\* C8, its case: an image of 51 words, no issuer keyword and no date scores
\* 60.
C8_Witness ==
    /\ Ok200
    /\ "decode" \in performed
    /\ response[1].body.word_count = 51
    /\ response[1].body.detected_issuers = <<>>
    /\ ~response[1].body.has_dates
    /\ response[1].body.trust_score = 60

\* C9: has_dates is true exactly when the text has a whitespace-delimited
\* token of four digits with value in [1900, 2100] or, lower-cased, holds
\* "issued on", "date of" or "on:".
C9_HasDates ==
    ret # Absent =>
        LET t == Strip(arg)
        IN  /\ ret[1].has_dates <=> (HasYearToken(t) \/ HasDatePhrase(t))
            /\ t = <<"1", "9", "9", "9">> => ret[1].has_dates
            /\ t = <<"2", "1", "5", "0">> => ~ret[1].has_dates
            /\ Contains(t, <<"I", "s", "s", "u", "e", "d", " ", "o", "n">>)
                  => ret[1].has_dates

\* C9, its case: a text with the token 1999 beside an out of range number
\* has dates.
C9_Witness ==
    /\ ret # Absent
    /\ arg = <<"2", "1", "5", "0", " ", "1", "9", "9", "9">>
    /\ ret[1].has_dates

\* C10 as stated: without an OCR engine, a request that reaches
\* recognition is answered with an error, never with a 200 result.
C10_NoEngineNoResult ==
    (~EASYOCR_OK /\ Done /\ "ocr" \in performed) =>
        /\ \A i \in 1..Len(ocr_log) : ocr_log[i].failed
        /\ response[1].status # 200

=============================================================================
